---- MODULE Spec2Model ----
(***************************************************************************)
(* Model of azure/storage/filedatalake/_shared/base_client_async.py:       *)
(* AsyncStorageAccountHostsMixin._create_pipeline (credential resolution   *)
(* and policy chain assembly) and AsyncStorageAccountHostsMixin._batch_send *)
(* (one multipart exchange and the classification of its outcome).         *)
(*                                                                         *)
(* Python objects are records carrying a "type" field (their class) and    *)
(* the attributes the code looks at; hasattr(o, name) is the presence of   *)
(* the field name in the record.                                           *)
(***************************************************************************)
EXTENDS Integers, Sequences, FiniteSets, TLC

VARIABLES
    phase,               \* "new" | "ready" | "failed": where the client's construction stands
    args,                \* the (credential, kwargs) of the latest _create_pipeline call
    _credential_policy,  \* self._credential_policy
    _config,             \* the Configuration returned by _create_pipeline
    _pipeline,           \* the pipeline returned by _create_pipeline
    error,               \* the exception the latest _create_pipeline call raised
    effects,             \* what the latest _create_pipeline call created on its way
    calls,               \* per task: its _batch_send call, in progress or finished
    wrapper,             \* an AsyncTransportWrapper and the transport it wraps
    scope                \* the client's scoped use and what its self._client received

vars ==
    <<phase, args, _credential_policy, _config, _pipeline, error, effects, calls,
      wrapper, scope>>

----------------------------------------------------------------------------
(* Bounds *)

MaxReqs == 3

MaxParts == 3

MaxInterleaved == 2

MaxOps == 3

----------------------------------------------------------------------------
(* Python values *)

None == [type |-> "NoneType"]

Unset == [type |-> "unset"]

hasattr(obj, name) == name \in DOMAIN obj

isinstance(obj, cls) == obj.type = cls

\* A Python list.
List(items) == [type |-> "list", items |-> items]

\* Python truth value of the values the code tests: None and the empty
\* list are false, every other object is true.
Truthy(v) == v # None /\ v # List(<<>>)

STORAGE_OAUTH_SCOPE == "https://storage.azure.com/.default"

CONNECTION_TIMEOUT == [type |-> "int", name |-> "CONNECTION_TIMEOUT"]

READ_TIMEOUT == [type |-> "int", name |-> "READ_TIMEOUT"]

----------------------------------------------------------------------------
(* Inputs of _create_pipeline *)

TokenCredential == [type |-> "TokenCredential", get_token |-> "method"]

SharedKey == [type |-> "SharedKeyCredentialPolicy"]

SharedKeyWithToken == [type |-> "SharedKeyCredentialPolicy", get_token |-> "method"]

SasCredential == [type |-> "AzureSasCredential"]

SasWithToken == [type |-> "AzureSasCredential", get_token |-> "method"]

AccountKeyString == [type |-> "str"]

Credentials ==
    {None, TokenCredential, SharedKey, SharedKeyWithToken, SasCredential,
     SasWithToken, AccountKeyString}

SuppliedConfiguration ==
    [type |-> "Configuration", origin |-> "supplied",
     headers_policy |-> [type |-> "HeadersPolicy", of |-> "supplied"],
     proxy_policy |-> [type |-> "ProxyPolicy", of |-> "supplied"],
     user_agent_policy |-> [type |-> "UserAgentPolicy", of |-> "supplied"],
     retry_policy |-> [type |-> "AsyncRetryPolicy", of |-> "supplied"],
     logging_policy |-> [type |-> "NetworkTraceLoggingPolicy", of |-> "supplied"],
     transport |-> None]

SuppliedTransport == [type |-> "AsyncHttpTransport", origin |-> "supplied"]

CallerPolicyA == [type |-> "CallerPolicy", name |-> "A"]

CallerPolicyB == [type |-> "CallerPolicy", name |-> "B"]

\* A pipeline built elsewhere (a parent client's), without credential policy.
PrebuiltAnonymous ==
    [type |-> "AsyncPipeline", origin |-> "supplied",
     transport |-> SuppliedTransport,
     policies |-> <<[type |-> "StorageHeadersPolicy"], CallerPolicyA>>]

\* A pipeline built elsewhere that signs with a shared key and a SAS.
PrebuiltSigned ==
    [type |-> "AsyncPipeline", origin |-> "supplied",
     transport |-> SuppliedTransport,
     policies |-> <<[type |-> "StorageHeadersPolicy"], SharedKey,
                    [type |-> "AzureSasCredentialPolicy", credential |-> SasCredential]>>]

AdditionalPolicies ==
    {None, List(<<>>), List(<<CallerPolicyA, CallerPolicyB>>),
     List(<<CallerPolicyB, SharedKey>>)}

CallerTimeout == [type |-> "int", name |-> "caller's"]

\* The keyword arguments of _create_pipeline; None stands for a key the
\* caller did not pass.
Kwargs ==
    [_configuration : {None, SuppliedConfiguration},
     _pipeline : {None, PrebuiltAnonymous, PrebuiltSigned},
     transport : {None, SuppliedTransport},
     connection_timeout : {None, CallerTimeout},
     read_timeout : {None, CallerTimeout},
     _additional_pipeline_policies : AdditionalPolicies]

NoKwargs ==
    [_configuration |-> None, _pipeline |-> None, transport |-> None,
     connection_timeout |-> None, read_timeout |-> None,
     _additional_pipeline_policies |-> None]

----------------------------------------------------------------------------
(* _create_pipeline *)

\* create_configuration(**kwargs) of base_client.py: a fresh Configuration
\* with the header, proxy, user agent, retry and logging policies.
create_configuration(kwargs) ==
    [type |-> "Configuration", origin |-> "created",
     headers_policy |-> [type |-> "HeadersPolicy", of |-> "created"],
     proxy_policy |-> [type |-> "ProxyPolicy", of |-> "created"],
     user_agent_policy |-> [type |-> "UserAgentPolicy", of |-> "created"],
     retry_policy |-> [type |-> "AsyncRetryPolicy", of |-> "created"],
     logging_policy |-> [type |-> "NetworkTraceLoggingPolicy", of |-> "created"],
     transport |-> None]

\* CredentialBranch without the final elif: an unknown credential is taken
\* for an absent one.
CredentialBranch_NoRejection(credential) ==
    IF hasattr(credential, "get_token") THEN "bearer"
    ELSE IF isinstance(credential, "SharedKeyCredentialPolicy") THEN "shared_key"
    ELSE IF isinstance(credential, "AzureSasCredential") THEN "sas"
    ELSE "none"

\* CredentialBranch with the class tests ahead of the get_token test.
CredentialBranch_ClassFirst(credential) ==
    IF isinstance(credential, "SharedKeyCredentialPolicy") THEN "shared_key"
    ELSE IF isinstance(credential, "AzureSasCredential") THEN "sas"
    ELSE IF hasattr(credential, "get_token") THEN "bearer"
    ELSE IF credential # None THEN "unsupported"
    ELSE "none"

\* Lines 72-79: which branch of the if/elif chain the credential takes.
CredentialBranch(credential) ==
    IF hasattr(credential, "get_token") THEN "bearer"
    ELSE IF isinstance(credential, "SharedKeyCredentialPolicy") THEN "shared_key"
    ELSE IF isinstance(credential, "AzureSasCredential") THEN "sas"
    ELSE IF credential # None THEN "unsupported"
    ELSE "none"

\* Lines 71-79: the value left in self._credential_policy (when no branch raises).
ResolveCredentialPolicy(credential) ==
    CASE CredentialBranch(credential) = "bearer" ->
            [type |-> "AsyncBearerTokenCredentialPolicy",
             credential |-> credential, scopes |-> STORAGE_OAUTH_SCOPE]
      [] CredentialBranch(credential) = "shared_key" -> credential
      [] CredentialBranch(credential) = "sas" ->
            [type |-> "AzureSasCredentialPolicy", credential |-> credential]
      [] OTHER -> None

\* BuiltinPolicies with the retry policy ahead of the host selection.
BuiltinPolicies_RetryBeforeHosts(config, credential_policy) ==
    << [type |-> "QueueMessagePolicy"],
       config.headers_policy,
       config.proxy_policy,
       config.user_agent_policy,
       [type |-> "StorageContentValidation"],
       [type |-> "StorageRequestHook"],
       credential_policy,
       [type |-> "ContentDecodePolicy", response_encoding |-> "utf-8"],
       [type |-> "AsyncRedirectPolicy"],
       config.retry_policy,
       [type |-> "StorageHosts"],
       config.logging_policy,
       [type |-> "AsyncStorageResponseHook"],
       [type |-> "DistributedTracingPolicy"],
       [type |-> "HttpLoggingPolicy"] >>

\* BuiltinPolicies with the credential policy listed a second time, after
\* the redirect policy.
BuiltinPolicies_CredentialTwice(config, credential_policy) ==
    << [type |-> "QueueMessagePolicy"],
       config.headers_policy,
       config.proxy_policy,
       config.user_agent_policy,
       [type |-> "StorageContentValidation"],
       [type |-> "StorageRequestHook"],
       credential_policy,
       [type |-> "ContentDecodePolicy", response_encoding |-> "utf-8"],
       [type |-> "AsyncRedirectPolicy"],
       credential_policy,
       [type |-> "StorageHosts"],
       config.retry_policy,
       config.logging_policy,
       [type |-> "AsyncStorageResponseHook"],
       [type |-> "DistributedTracingPolicy"],
       [type |-> "HttpLoggingPolicy"] >>

\* Lines 92-108: the built-in policy list.
BuiltinPolicies(config, credential_policy) ==
    << [type |-> "QueueMessagePolicy"],
       config.headers_policy,
       config.proxy_policy,
       config.user_agent_policy,
       [type |-> "StorageContentValidation"],
       [type |-> "StorageRequestHook"],
       credential_policy,
       [type |-> "ContentDecodePolicy", response_encoding |-> "utf-8"],
       [type |-> "AsyncRedirectPolicy"],
       [type |-> "StorageHosts"],
       config.retry_policy,
       config.logging_policy,
       [type |-> "AsyncStorageResponseHook"],
       [type |-> "DistributedTracingPolicy"],
       [type |-> "HttpLoggingPolicy"] >>

\* WithAdditionalPolicies with the operands of + exchanged.
WithAdditionalPolicies_Prepended(policies, additional) ==
    IF Truthy(additional) THEN additional.items \o policies ELSE policies

\* Lines 109-110: the caller's additional policies go after the built-in ones.
WithAdditionalPolicies(policies, additional) ==
    IF Truthy(additional) THEN policies \o additional.items ELSE policies

\* setdefault replacing a value the caller passed.
setdefault_Overwriting(kwargs, key, default) == [kwargs EXCEPT ![key] = default]

\* Lines 84-85: kwargs.setdefault(key, default).
setdefault(kwargs, key, default) ==
    IF kwargs[key] = None THEN [kwargs EXCEPT ![key] = default] ELSE kwargs

\* Line 91: AioHttpTransport(**kwargs).
AioHttpTransport(kwargs) ==
    [type |-> "AioHttpTransport", origin |-> "default",
     connection_timeout |-> kwargs.connection_timeout,
     read_timeout |-> kwargs.read_timeout]

\* Line 111: AsyncPipeline(config.transport, policies=policies).
AsyncPipeline(transport, policies) ==
    [type |-> "AsyncPipeline", origin |-> "built",
     transport |-> transport, policies |-> policies]

\* What a run of _create_pipeline did on its way, in the order of the code.
NoEffects ==
    [credential_reset |-> FALSE, configuration_created |-> FALSE,
     import_attempted |-> FALSE, transport_constructed |-> FALSE,
     policies_built |-> FALSE, pipeline_constructed |-> FALSE]

\* create_pipeline returning a prebuilt pipeline before it looks at the
\* credential.
create_pipeline_ShortcutFirst(credential, kwargs, aiohttp_installed) ==
    LET reset == [NoEffects EXCEPT !.credential_reset = TRUE]
        policy == ResolveCredentialPolicy(credential)
        config == IF Truthy(kwargs._configuration)
                    THEN kwargs._configuration
                    ELSE create_configuration(kwargs)
        eff1 == [reset EXCEPT !.configuration_created = ~Truthy(kwargs._configuration)]
        kw == setdefault(setdefault(kwargs, "connection_timeout", CONNECTION_TIMEOUT),
                         "read_timeout", READ_TIMEOUT)
        needs_default == ~Truthy(kwargs.transport)
        transport == IF needs_default THEN AioHttpTransport(kw) ELSE kwargs.transport
        eff2 == [eff1 EXCEPT !.import_attempted = needs_default]
        policies == WithAdditionalPolicies(BuiltinPolicies(config, policy),
                                           kwargs._additional_pipeline_policies)
    IN
    IF Truthy(kwargs._pipeline)
    THEN [raises |-> "none", credential_policy |-> None,
          config |-> config, pipeline |-> kwargs._pipeline, effects |-> eff1]
    ELSE IF CredentialBranch(credential) = "unsupported"
    THEN [raises |-> "TypeError", credential_policy |-> None,
          config |-> Unset, pipeline |-> Unset, effects |-> reset]
    ELSE IF needs_default /\ ~aiohttp_installed
    THEN [raises |-> "ImportError", credential_policy |-> policy,
          config |-> Unset, pipeline |-> Unset, effects |-> eff2]
    ELSE [raises |-> "none", credential_policy |-> policy,
          config |-> [config EXCEPT !.transport = transport],
          pipeline |-> AsyncPipeline(transport, policies),
          effects |-> [eff2 EXCEPT !.transport_constructed = needs_default,
                                   !.policies_built = TRUE,
                                   !.pipeline_constructed = TRUE]]

\* _create_pipeline(credential, **kwargs), lines 69-111, as a function of
\* its inputs: the exception raised (or "none"), the value left in
\* self._credential_policy, the (config, pipeline) returned and what was
\* created on the way.  aiohttp_installed is whether the import of line 88
\* succeeds.
create_pipeline(credential, kwargs, aiohttp_installed) ==
    LET reset == [NoEffects EXCEPT !.credential_reset = TRUE]
        policy == ResolveCredentialPolicy(credential)
        config == IF Truthy(kwargs._configuration)
                    THEN kwargs._configuration
                    ELSE create_configuration(kwargs)
        eff1 == [reset EXCEPT !.configuration_created = ~Truthy(kwargs._configuration)]
        kw == setdefault(setdefault(kwargs, "connection_timeout", CONNECTION_TIMEOUT),
                         "read_timeout", READ_TIMEOUT)
        needs_default == ~Truthy(kwargs.transport)
        transport == IF needs_default THEN AioHttpTransport(kw) ELSE kwargs.transport
        eff2 == [eff1 EXCEPT !.import_attempted = needs_default]
        policies == WithAdditionalPolicies(BuiltinPolicies(config, policy),
                                           kwargs._additional_pipeline_policies)
    IN
    IF CredentialBranch(credential) = "unsupported"
    THEN [raises |-> "TypeError", credential_policy |-> None,
          config |-> Unset, pipeline |-> Unset, effects |-> reset]
    ELSE IF Truthy(kwargs._pipeline)
    THEN [raises |-> "none", credential_policy |-> policy,
          config |-> config, pipeline |-> kwargs._pipeline, effects |-> eff1]
    ELSE IF needs_default /\ ~aiohttp_installed
    THEN [raises |-> "ImportError", credential_policy |-> policy,
          config |-> Unset, pipeline |-> Unset, effects |-> eff2]
    ELSE [raises |-> "none", credential_policy |-> policy,
          config |-> [config EXCEPT !.transport = transport],
          pipeline |-> AsyncPipeline(transport, policies),
          effects |-> [eff2 EXCEPT !.transport_constructed = needs_default,
                                   !.policies_built = TRUE,
                                   !.pipeline_constructed = TRUE]]

\* The client's construction calls _create_pipeline and keeps what it
\* returns; when it raises, the client is never handed to the caller.
CreatePipeline(credential, kwargs, aiohttp_installed) ==
    /\ phase = "new"
    /\ LET r == create_pipeline(credential, kwargs, aiohttp_installed)
       IN /\ phase' = IF r.raises = "none" THEN "ready" ELSE "failed"
          /\ error' = r.raises
          /\ _credential_policy' = r.credential_policy
          /\ _config' = r.config
          /\ _pipeline' = r.pipeline
          /\ effects' = r.effects
    /\ args' = [credential |-> credential, kwargs |-> kwargs,
                aiohttp_installed |-> aiohttp_installed]
    /\ UNCHANGED <<calls, wrapper, scope>>

----------------------------------------------------------------------------
(* Inputs of _batch_send and of its environment *)

\* The sub-requests of a batch: request i is the i-th one submitted.
Reqs(n) == [i \in 1..n |-> [type |-> "HttpRequest", id |-> i]]

\* The raise_on_any_failure keyword argument as the caller wrote it.
RaiseOnAnyFailureArgs == {"omitted", "True", "False"}

TopStatuses == {202, 200, 500}

PartStatuses == {199, 200, 299, 300}

RECURSIVE SeqsUpTo(_, _)
SeqsUpTo(S, n) ==
    IF n = 0 THEN {<<>>}
    ELSE LET shorter == SeqsUpTo(S, n - 1)
         IN shorter \cup {Append(s, x) : s \in {q \in shorter : Len(q) = n - 1}, x \in S}

\* The parts of a multipart response: part i is the i-th one of the body.
PartsOf(statuses) ==
    [i \in 1..Len(statuses) |->
        [type |-> "AsyncHttpResponse", index |-> i, status_code |-> statuses[i]]]

\* What the service may answer: an accepted batch with any parts, or
\* another status with no part or with one.
Responses ==
    {[type |-> "AsyncHttpResponse", status_code |-> 202, body |-> PartsOf(statuses)] :
        statuses \in SeqsUpTo(PartStatuses, MaxParts)}
    \cup
    {[type |-> "AsyncHttpResponse", status_code |-> s, body |-> PartsOf(statuses)] :
        s \in TopStatuses \ {202}, statuses \in {<<>>, <<200>>, <<300>>}}

----------------------------------------------------------------------------
(* _batch_send *)

IdleCall ==
    [pc |-> "idle", reqs |-> <<>>, arg |-> "omitted", raise_on_any_failure |-> TRUE,
     request |-> None, runs |-> 0, response |-> None,
     parts |-> None, parts_list |-> <<>>, thrown |-> None,
     classified |-> FALSE, outcome |-> "pending", raised |-> None,
     result |-> None, consumed |-> <<>>]

\* Line 120: kwargs.pop("raise_on_any_failure", True).
PopRaiseOnAnyFailure(arg) == IF arg = "omitted" THEN TRUE ELSE arg = "True"

\* PartPolicies with the credential policy ahead of the header policy.
PartPolicies_CredentialFirst(credential_policy) ==
    IF Truthy(credential_policy)
    THEN <<credential_policy, [type |-> "StorageHeadersPolicy"]>>
    ELSE <<[type |-> "StorageHeadersPolicy"]>>

\* Lines 132-134: the policies applied to each part.
PartPolicies(credential_policy) ==
    IF Truthy(credential_policy)
    THEN <<[type |-> "StorageHeadersPolicy"], credential_policy>>
    ELSE <<[type |-> "StorageHeadersPolicy"]>>

\* Lines 121-140: the top-level request with its multipart content.
BatchRequest(reqs, policies) ==
    [type |-> "HttpRequest", method |-> "POST",
     url |-> <<"scheme", "primary_hostname", "path", "restype", "comp=batch", "sas", "timeout">>,
     headers |-> <<"x-ms-version", "api_version">>,
     multipart_mixed_info |-> [requests |-> reqs, policies |-> policies,
                               enforce_https |-> FALSE]]

\* IsBatchAccepted taking every 2xx status for an accepted batch.
IsBatchAccepted_AnySuccess(response) ==
    200 <= response.status_code /\ response.status_code < 300

\* IsBatchAccepted without the status check.
IsBatchAccepted_Always(response) == TRUE

\* Line 148: response.status_code not in [202].
IsBatchAccepted(response) == response.status_code \in {202}

\* PartFailed with the upper limit included in the successes.
PartFailed_UpTo300(p) == ~(200 <= p.status_code /\ p.status_code <= 300)

\* Line 155: not 200 <= p.status_code < 300.
PartFailed(p) == ~(200 <= p.status_code /\ p.status_code < 300)

\* AnyPartFailed over a parts_list that the calls of a client share.
AnyPartFailed_AcrossCalls(parts_list) ==
    \E t \in DOMAIN calls :
        \E i \in 1..Len(calls[t].parts_list) : PartFailed(calls[t].parts_list[i])

\* Line 155: any(p for p in parts_list if not 200 <= p.status_code < 300).
AnyPartFailed(parts_list) == \E i \in 1..Len(parts_list) : PartFailed(parts_list[i])

\* Line 150: response.parts(), an asynchronous iterator over the parts of
\* the body, at its start.
ResponseParts(response) ==
    [type |-> "AsyncIterator", of |-> response.body, pos |-> 0, state |-> "open"]

\* The asynchronous iterator: whether a next item exists, the item, and the
\* iterator after yielding it, after its end and after a failure.
IteratorExhausted(it) == it.pos >= Len(it.of)

IteratorItem(it) == it.of[it.pos + 1]

IteratorAdvance(it) == [it EXCEPT !.pos = it.pos + 1]

IteratorStop(it) == [it EXCEPT !.state = "exhausted"]

IteratorFail(it) == [it EXCEPT !.state = "failed"]

\* CollectsEagerly ignoring the flag.
CollectsEagerly_Always(raise_on_any_failure) == TRUE

\* Line 151: if raise_on_any_failure.
CollectsEagerly(raise_on_any_failure) == raise_on_any_failure

\* Line 161: AsyncList(parts_list).
AsyncList(parts_list) == [type |-> "AsyncList", items |-> parts_list]

\* PartialBatchError carrying the failed parts only.
PartialBatchError_FailedOnly(response, parts_list) ==
    [type |-> "PartialBatchErrorException",
     message |-> "There is a partial failure in the batch operation.",
     response |-> response, parts |-> SelectSeq(parts_list, PartFailed)]

\* Lines 156-159: the exception of a partial failure.
PartialBatchError(response, parts_list) ==
    [type |-> "PartialBatchErrorException",
     message |-> "There is a partial failure in the batch operation.",
     response |-> response, parts |-> parts_list]

\* process_storage_error(error) of response_handlers.py: the exception it
\* raises.  A partial-batch failure leaves as itself; any other HTTP
\* response error leaves as the storage service error decoded from the
\* response.
process_storage_error(err) ==
    IF err.type = "PartialBatchErrorException"
    THEN err
    ELSE [type |-> "StorageServiceError", response |-> err.response]

\* IsHttpResponseError missing the decoding errors of the iteration.
IsHttpResponseError_NotDecodeError(err) ==
    err.type \in {"HttpResponseError", "PartialBatchErrorException"}

\* Lines 163-164: an exception raised inside the try block leaves the call
\* through the handler when it is an HttpResponseError, as itself otherwise.
IsHttpResponseError(err) ==
    err.type \in {"HttpResponseError", "PartialBatchErrorException", "DecodeError"}

\* LeaveByException running the request once more for a classified error.
LeaveByException_Resending(c, err) ==
    [c EXCEPT !.pc = "done", !.thrown = err,
              !.classified = IsHttpResponseError(err),
              !.outcome = "raised",
              !.runs = IF IsHttpResponseError(err) THEN @ + 1 ELSE @,
              !.raised = IF IsHttpResponseError(err)
                           THEN process_storage_error(err) ELSE err]

LeaveByException(c, err) ==
    [c EXCEPT !.pc = "done", !.thrown = err,
              !.classified = IsHttpResponseError(err),
              !.outcome = "raised",
              !.raised = IF IsHttpResponseError(err)
                           THEN process_storage_error(err) ELSE err]

LeaveByReturn(c, value) ==
    [c EXCEPT !.pc = "done", !.outcome = "returned", !.result = value]

\* Lines 120-142: up to the suspension in self._pipeline.run.
BatchSend(t, n, arg) ==
    /\ phase = "ready"
    /\ calls[t].pc = "idle"
    /\ LET reqs == Reqs(n)
           policies == PartPolicies(_credential_policy)
       IN calls' = [calls EXCEPT ![t] =
                      [IdleCall EXCEPT !.pc = "awaiting_response",
                                       !.reqs = reqs,
                                       !.arg = arg,
                                       !.raise_on_any_failure = PopRaiseOnAnyFailure(arg),
                                       !.request = BatchRequest(reqs, policies),
                                       !.runs = 1]]
    /\ UNCHANGED <<phase, args, _credential_policy, _config, _pipeline, error, effects,
                   wrapper, scope>>

\* Line 142: the pipeline run raises (a transport failure the retry policy
\* gave up on); the await is outside the try block.
PipelineRunRaises(t) ==
    /\ calls[t].pc = "awaiting_response"
    /\ calls' = [calls EXCEPT ![t] =
                    [@ EXCEPT !.pc = "done", !.outcome = "raised",
                              !.raised = [type |-> "ServiceRequestError"]]]
    /\ UNCHANGED <<phase, args, _credential_policy, _config, _pipeline, error, effects,
                   wrapper, scope>>

\* Lines 142-162: the pipeline run returns response; the code runs up to
\* its next suspension (the first step of the async for) or to its end.
PipelineRunReturns(t, response) ==
    /\ calls[t].pc = "awaiting_response"
    /\ LET c == [calls[t] EXCEPT !.response = response]
           parts == ResponseParts(response)
       IN calls' = [calls EXCEPT ![t] =
            IF ~IsBatchAccepted(response)
            THEN LeaveByException(c, [type |-> "HttpResponseError", response |-> response])
            ELSE IF CollectsEagerly(c.raise_on_any_failure)
            THEN [c EXCEPT !.pc = "iterating", !.parts = parts, !.parts_list = <<>>]
            ELSE LeaveByReturn([c EXCEPT !.parts = parts], parts)]
    /\ UNCHANGED <<phase, args, _credential_policy, _config, _pipeline, error, effects,
                   wrapper, scope>>

\* Lines 153-161: one step of the async for; at the end of the iterator,
\* the check of the collected parts.
IterateParts(t) ==
    /\ calls[t].pc = "iterating"
    /\ LET c == calls[t]
           ended == [c EXCEPT !.parts = IteratorStop(c.parts)]
       IN calls' = [calls EXCEPT ![t] =
            IF ~IteratorExhausted(c.parts)
            THEN [c EXCEPT !.parts_list = Append(c.parts_list, IteratorItem(c.parts)),
                           !.parts = IteratorAdvance(c.parts)]
            ELSE IF AnyPartFailed(c.parts_list)
            THEN LeaveByException(ended, PartialBatchError(c.response, c.parts_list))
            ELSE LeaveByReturn(ended, AsyncList(c.parts_list))]
    /\ UNCHANGED <<phase, args, _credential_policy, _config, _pipeline, error, effects,
                   wrapper, scope>>

\* Line 153: the iterator raises instead of yielding (the body cannot be
\* read or decoded).
IteratePartsRaises(t, exc) ==
    /\ calls[t].pc = "iterating"
    /\ LET c == [calls[t] EXCEPT !.parts = IteratorFail(calls[t].parts)]
       IN calls' = [calls EXCEPT ![t] =
                      LeaveByException(c, [type |-> exc, response |-> c.response])]
    /\ UNCHANGED <<phase, args, _credential_policy, _config, _pipeline, error, effects,
                   wrapper, scope>>

\* The caller of a lazy call draws from the iterator that line 162
\* returned: the next part, or the end.
CallerConsumes(t) ==
    /\ calls[t].pc = "done"
    /\ calls[t].outcome = "returned"
    /\ calls[t].result.type = "AsyncIterator"
    /\ calls[t].result.state = "open"
    /\ LET it == calls[t].result
       IN calls' = [calls EXCEPT ![t] =
            IF ~IteratorExhausted(it)
            THEN [@ EXCEPT !.consumed = Append(@, IteratorItem(it)),
                           !.result = IteratorAdvance(it)]
            ELSE [@ EXCEPT !.result = IteratorStop(it)]]
    /\ UNCHANGED <<phase, args, _credential_policy, _config, _pipeline, error, effects,
                   wrapper, scope>>

----------------------------------------------------------------------------
(* AsyncTransportWrapper *)

\* The requests the wrapper is asked to send.
Requests == {[type |-> "HttpRequest", id |-> 1], [type |-> "HttpRequest", id |-> 2]}

\* The transport of a parent client, open, as the wrapper receives it: the
\* open and close calls it got since, and the requests it was given.
OpenTransport ==
    [type |-> "AsyncHttpTransport", closed |-> FALSE,
     open_calls |-> 0, close_calls |-> 0, requests |-> <<>>]

\* The transport's own operations: close() is counted and ends its use;
\* send(request) answers the request while the transport is in use.
TransportClose(transport) ==
    [transport EXCEPT !.close_calls = @ + 1, !.closed = TRUE]

TransportSend(transport, request) ==
    [transport EXCEPT !.requests = Append(@, request)]

TransportResult(transport, request) ==
    IF transport.closed
    THEN [type |-> "ServiceRequestError", request |-> request]
    ELSE [type |-> "AsyncHttpResponse", request |-> request,
          answer |-> Len(transport.requests) + 1]

\* Lines 172-173: __init__(async_transport).
NewTransportWrapper(async_transport) ==
    [_transport |-> async_transport, log |-> <<>>, result |-> None]

\* Lines 175-176: send awaits self._transport.send(request) and returns
\* what it returns; the wrapped transport after the call, and the result.
WrapperSendTransport(transport, request) == TransportSend(transport, request)

WrapperSendResult(transport, request) == TransportResult(transport, request)

\* WrapperClose passing the call on to the wrapped transport.
WrapperClose_Delegating(transport) == TransportClose(transport)

\* Lines 178-188: open, close, __aenter__ and __aexit__ are `pass`; the
\* wrapped transport after each.
WrapperOpen(transport) == transport

WrapperClose(transport) == transport

WrapperAEnter(transport) == transport

WrapperAExit(transport) == transport

\* One call of a method of the wrapper.
TransportWrapperCall(op, transport, result) ==
    /\ Len(wrapper.log) < MaxOps
    /\ wrapper' = [_transport |-> transport, log |-> Append(wrapper.log, op),
                   result |-> result]
    /\ UNCHANGED <<phase, args, _credential_policy, _config, _pipeline, error, effects,
                   calls, scope>>

TransportWrapperSend(request) ==
    TransportWrapperCall([method |-> "send", request |-> request],
                         WrapperSendTransport(wrapper._transport, request),
                         WrapperSendResult(wrapper._transport, request))

TransportWrapperOpen ==
    TransportWrapperCall([method |-> "open"], WrapperOpen(wrapper._transport), None)

TransportWrapperClose ==
    TransportWrapperCall([method |-> "close"], WrapperClose(wrapper._transport), None)

TransportWrapperAEnter ==
    TransportWrapperCall([method |-> "__aenter__"], WrapperAEnter(wrapper._transport), None)

TransportWrapperAExit ==
    TransportWrapperCall([method |-> "__aexit__"], WrapperAExit(wrapper._transport), None)

----------------------------------------------------------------------------
(* Scoped use of the client *)

\* A client whose self._client received nothing yet.
NewScope == [_client |-> <<>>, log |-> <<>>, outcome |-> "none", value |-> None]

\* Lines 50-51: __enter__ raises TypeError.
Enter ==
    [forwarded |-> <<>>, outcome |-> "raised",
     value |-> [type |-> "TypeError",
                message |-> "Async client only supports 'async with'."]]

\* Lines 53-54: __exit__ is `pass`.
Exit == [forwarded |-> <<>>, outcome |-> "returned", value |-> None]

\* AEnter without the await of line 57.
AEnter_NotEntering ==
    [forwarded |-> <<>>, outcome |-> "returned", value |-> [type |-> "self"]]

\* Lines 56-58: __aenter__ awaits self._client.__aenter__() and returns self.
AEnter ==
    [forwarded |-> <<"__aenter__">>, outcome |-> "returned",
     value |-> [type |-> "self"]]

\* Lines 60-61: __aexit__ awaits self._client.__aexit__(*args).
AExit == [forwarded |-> <<"__aexit__">>, outcome |-> "returned", value |-> None]

\* Lines 63-67: close awaits self._client.close().
Close == [forwarded |-> <<"close">>, outcome |-> "returned", value |-> None]

\* One call of a scope method of the client.
ScopeCall(op, does) ==
    /\ phase = "ready"
    /\ Len(scope.log) < MaxOps
    /\ scope' = [_client |-> scope._client \o does.forwarded,
                 log |-> Append(scope.log, op),
                 outcome |-> does.outcome, value |-> does.value]
    /\ UNCHANGED <<phase, args, _credential_policy, _config, _pipeline, error, effects,
                   calls, wrapper>>

ClientEnter == ScopeCall("__enter__", Enter)

ClientExit == ScopeCall("__exit__", Exit)

ClientAEnter == ScopeCall("__aenter__", AEnter)

ClientAExit == ScopeCall("__aexit__", AExit)

ClientClose == ScopeCall("close", Close)

----------------------------------------------------------------------------
(* Specifications *)

Tasks == {"t1"}

\* A client under construction.
Init ==
    /\ phase = "new"
    /\ args = [credential |-> None, kwargs |-> NoKwargs, aiohttp_installed |-> TRUE]
    /\ _credential_policy = Unset
    /\ _config = Unset
    /\ _pipeline = Unset
    /\ error = "none"
    /\ effects = NoEffects
    /\ calls = [t \in Tasks |-> IdleCall]
    /\ wrapper = NewTransportWrapper(OpenTransport)
    /\ scope = NewScope

\* Construction, and the start of a batch on the constructed client.
NextCreate ==
    \/ \E credential \in Credentials, kwargs \in Kwargs, aiohttp_installed \in BOOLEAN :
          CreatePipeline(credential, kwargs, aiohttp_installed)
    \/ \E t \in DOMAIN calls, n \in 1..MaxReqs, arg \in RaiseOnAnyFailureArgs :
          BatchSend(t, n, arg)

SpecCreate == Init /\ [][NextCreate]_vars

\* The constructions the batch specification starts from: every credential,
\* with a pipeline built from the defaults or with a prebuilt one.
BatchKwargs == {NoKwargs, [NoKwargs EXCEPT !._pipeline = PrebuiltSigned]}

\* A constructed client: the state _create_pipeline leaves.
InitBatch ==
    \E credential \in Credentials, kwargs \in BatchKwargs :
        LET r == create_pipeline(credential, kwargs, TRUE)
        IN /\ r.raises = "none"
           /\ phase = "ready"
           /\ args = [credential |-> credential, kwargs |-> kwargs,
                      aiohttp_installed |-> TRUE]
           /\ _credential_policy = r.credential_policy
           /\ _config = r.config
           /\ _pipeline = r.pipeline
           /\ error = "none"
           /\ effects = r.effects
           /\ calls = [t \in Tasks |-> IdleCall]
           /\ wrapper = NewTransportWrapper(OpenTransport)
           /\ scope = NewScope

\* The batch calls of a constructed client.
NextBatch ==
    \/ \E t \in DOMAIN calls, n \in 1..MaxReqs, arg \in RaiseOnAnyFailureArgs :
          BatchSend(t, n, arg)
    \/ \E t \in DOMAIN calls : PipelineRunRaises(t)
    \/ \E t \in DOMAIN calls, response \in Responses : PipelineRunReturns(t, response)
    \/ \E t \in DOMAIN calls : IterateParts(t)
    \/ \E t \in DOMAIN calls, exc \in {"DecodeError", "ServiceResponseError"} :
          IteratePartsRaises(t, exc)
    \/ \E t \in DOMAIN calls : CallerConsumes(t)

SpecBatch == InitBatch /\ [][NextBatch]_vars

\* Two calls of _batch_send on one client, each suspended at
\* self._pipeline.run and at each step of the iteration of the parts.
ConcurrentTasks == {"t1", "t2"}

\* What the service may answer to them.
InterleavedResponses ==
    {[type |-> "AsyncHttpResponse", status_code |-> 202, body |-> PartsOf(statuses)] :
        statuses \in SeqsUpTo({200, 300}, MaxInterleaved)}
    \cup {[type |-> "AsyncHttpResponse", status_code |-> 500, body |-> <<>>]}

InitConcurrent ==
    LET r == create_pipeline(SharedKey, NoKwargs, TRUE)
    IN /\ phase = "ready"
       /\ args = [credential |-> SharedKey, kwargs |-> NoKwargs,
                  aiohttp_installed |-> TRUE]
       /\ _credential_policy = r.credential_policy
       /\ _config = r.config
       /\ _pipeline = r.pipeline
       /\ error = "none"
       /\ effects = r.effects
       /\ calls = [t \in ConcurrentTasks |-> IdleCall]
       /\ wrapper = NewTransportWrapper(OpenTransport)
       /\ scope = NewScope

NextConcurrent ==
    \/ \E t \in DOMAIN calls, n \in 1..MaxInterleaved, arg \in {"True", "False"} :
          BatchSend(t, n, arg)
    \/ \E t \in DOMAIN calls : PipelineRunRaises(t)
    \/ \E t \in DOMAIN calls, response \in InterleavedResponses :
          PipelineRunReturns(t, response)
    \/ \E t \in DOMAIN calls : IterateParts(t)
    \/ \E t \in DOMAIN calls : IteratePartsRaises(t, "DecodeError")
    \/ \E t \in DOMAIN calls : CallerConsumes(t)

SpecConcurrent == InitConcurrent /\ [][NextConcurrent]_vars

\* The calls on a transport wrapper.
NextWrapper ==
    \/ \E request \in Requests : TransportWrapperSend(request)
    \/ TransportWrapperOpen
    \/ TransportWrapperClose
    \/ TransportWrapperAEnter
    \/ TransportWrapperAExit

SpecWrapper == Init /\ [][NextWrapper]_vars

\* The scoped use of a constructed client.
NextScope ==
    \/ ClientEnter
    \/ ClientExit
    \/ ClientAEnter
    \/ ClientAExit
    \/ ClientClose

SpecScope == InitBatch /\ [][NextScope]_vars

----------------------------------------------------------------------------
(* Properties of _create_pipeline, under SpecCreate *)

Constructed == phase = "ready"

ChainBuilt == phase = "ready" /\ _pipeline.origin = "built"

CredentialPolicyTypes ==
    {"AsyncBearerTokenCredentialPolicy", "SharedKeyCredentialPolicy",
     "AzureSasCredentialPolicy"}

IsCredentialPolicy(p) == p.type \in CredentialPolicyTypes

CountCredentialPolicies(policies) ==
    Cardinality({i \in 1..Len(policies) : IsCredentialPolicy(policies[i])})

\* The credential of C1: it is present, has no get_token, and
\* is neither a shared-key policy nor a SAS credential.
UnsupportedCredential(credential) ==
    /\ credential # None
    /\ ~hasattr(credential, "get_token")
    /\ credential.type \notin {"SharedKeyCredentialPolicy", "AzureSasCredential"}

\* C1: a _create_pipeline call with an unsupported credential raises
\* TypeError having created no configuration, attempted no transport import,
\* constructed no transport, built no policy list and no pipeline; the
\* client has no pipeline and no batch request is ever run.
C1_UnsupportedCredentialFailsFirst ==
    (phase # "new" /\ UnsupportedCredential(args.credential)) =>
        /\ phase = "failed"
        /\ error = "TypeError"
        /\ ~effects.configuration_created
        /\ ~effects.import_attempted
        /\ ~effects.transport_constructed
        /\ ~effects.policies_built
        /\ ~effects.pipeline_constructed
        /\ _config = Unset
        /\ _pipeline = Unset
        /\ \A t \in DOMAIN calls : calls[t].pc = "idle" /\ calls[t].runs = 0

C1_Witness ==
    /\ phase = "failed"
    /\ error = "TypeError"
    /\ args.credential = AccountKeyString
    /\ args.kwargs._pipeline = PrebuiltSigned
    /\ args.kwargs.transport = SuppliedTransport

\* C2: after any _create_pipeline call the credential policy is decided by
\* the first test the credential passes, in the order get_token, shared-key
\* policy, SAS credential, None: a bearer-token policy over the credential
\* with the storage OAuth scope, the credential itself, a SAS policy over the
\* credential, None; TypeError is raised exactly when no test passes.
C2_ResolutionByPriority ==
    phase # "new" =>
        LET credential == args.credential
        IN IF "get_token" \in DOMAIN credential
           THEN /\ error # "TypeError"
                /\ _credential_policy =
                      [type |-> "AsyncBearerTokenCredentialPolicy",
                       credential |-> credential, scopes |-> STORAGE_OAUTH_SCOPE]
           ELSE IF credential.type = "SharedKeyCredentialPolicy"
           THEN error # "TypeError" /\ _credential_policy = credential
           ELSE IF credential.type = "AzureSasCredential"
           THEN /\ error # "TypeError"
                /\ _credential_policy =
                      [type |-> "AzureSasCredentialPolicy", credential |-> credential]
           ELSE IF credential = None
           THEN error # "TypeError" /\ _credential_policy = None
           ELSE error = "TypeError" /\ phase = "failed"

C2_Witness ==
    /\ phase = "ready"
    /\ args.credential = SharedKeyWithToken
    /\ _credential_policy.type = "AsyncBearerTokenCredentialPolicy"

\* The first n policies of the chain.
FirstPolicies(policies, n) == SubSeq(policies, 1, n)

\* C3 as stated: the built-in stages of every built chain are, in order,
\* message shape, headers, proxy, user agent, content validation, request
\* hook, credential policy, redirect, host selection, retry, response
\* logging, response hook, tracing, HTTP logging.
C3_OrderAsStated ==
    ChainBuilt =>
        FirstPolicies(_pipeline.policies, 14) =
            << [type |-> "QueueMessagePolicy"],
               _config.headers_policy,
               _config.proxy_policy,
               _config.user_agent_policy,
               [type |-> "StorageContentValidation"],
               [type |-> "StorageRequestHook"],
               _credential_policy,
               [type |-> "AsyncRedirectPolicy"],
               [type |-> "StorageHosts"],
               _config.retry_policy,
               _config.logging_policy,
               [type |-> "AsyncStorageResponseHook"],
               [type |-> "DistributedTracingPolicy"],
               [type |-> "HttpLoggingPolicy"] >>

\* C3 (amended): the built-in stages of every built chain are, in order,
\* message shape, headers, proxy, user agent, content validation, request
\* hook, credential policy (None when the credential is absent), response
\* content decoding, redirect, host selection, retry, response logging,
\* response hook, tracing, HTTP logging, whatever the credential and the
\* other inputs are.
C3_BuiltinOrder ==
    ChainBuilt =>
        /\ Len(_pipeline.policies) >= 15
        /\ FirstPolicies(_pipeline.policies, 15) =
            << [type |-> "QueueMessagePolicy"],
               _config.headers_policy,
               _config.proxy_policy,
               _config.user_agent_policy,
               [type |-> "StorageContentValidation"],
               [type |-> "StorageRequestHook"],
               _credential_policy,
               [type |-> "ContentDecodePolicy", response_encoding |-> "utf-8"],
               [type |-> "AsyncRedirectPolicy"],
               [type |-> "StorageHosts"],
               _config.retry_policy,
               _config.logging_policy,
               [type |-> "AsyncStorageResponseHook"],
               [type |-> "DistributedTracingPolicy"],
               [type |-> "HttpLoggingPolicy"] >>

C3_Witness ==
    /\ ChainBuilt
    /\ _credential_policy.type = "AzureSasCredentialPolicy"
    /\ _config.origin = "supplied"
    /\ _pipeline.policies[8].type = "ContentDecodePolicy"

\* C4: when additional policies are supplied and a chain is built, the
\* chain is the fifteen built-in stages, ending with the HTTP logging
\* policy, followed by exactly the supplied policies in the order supplied.
C4_AdditionalPoliciesAtTail ==
    (ChainBuilt /\ Truthy(args.kwargs._additional_pipeline_policies)) =>
        LET additional == args.kwargs._additional_pipeline_policies.items
            policies == _pipeline.policies
        IN /\ Len(policies) = 15 + Len(additional)
           /\ policies[15] = [type |-> "HttpLoggingPolicy"]
           /\ \A i \in 1..Len(additional) : policies[15 + i] = additional[i]
           /\ \A i \in 1..15 : policies[i].type # "CallerPolicy"
           /\ policies[1] = [type |-> "QueueMessagePolicy"]
           /\ policies[7] = _credential_policy

C4_Witness ==
    /\ ChainBuilt
    /\ args.kwargs._additional_pipeline_policies = List(<<CallerPolicyA, CallerPolicyB>>)
    /\ _pipeline.policies[16] = CallerPolicyA
    /\ _pipeline.policies[17] = CallerPolicyB

\* C5 as stated: the client's pipeline holds exactly one credential policy
\* when the credential resolved to one, and none when it is absent,
\* whatever the other inputs are.
C5_CountAsStated ==
    Constructed =>
        CountCredentialPolicies(_pipeline.policies) =
            (IF args.credential = None THEN 0 ELSE 1)

\* C5 (amended): among the fifteen built-in stages of a chain that
\* _create_pipeline builds there is exactly one credential policy, the
\* resolved one in the seventh place, when the credential resolved to one,
\* and none when it is absent; the caller's additional policies follow
\* unchanged, and a prebuilt pipeline is returned as supplied, so the
\* credential policies these hold are the caller's own.
C5_CredentialPolicyCount ==
    /\ ChainBuilt =>
          LET builtin == FirstPolicies(_pipeline.policies, 15)
              additional == args.kwargs._additional_pipeline_policies
          IN /\ CountCredentialPolicies(builtin) =
                    (IF args.credential = None THEN 0 ELSE 1)
             /\ args.credential # None =>
                    IsCredentialPolicy(builtin[7]) /\ builtin[7] = _credential_policy
             /\ CountCredentialPolicies(_pipeline.policies) =
                    CountCredentialPolicies(builtin) +
                    (IF Truthy(additional) THEN CountCredentialPolicies(additional.items) ELSE 0)
    /\ (Constructed /\ ~ChainBuilt) => _pipeline = args.kwargs._pipeline

C5_Witness ==
    /\ ChainBuilt
    /\ args.credential = SasCredential
    /\ args.kwargs._additional_pipeline_policies = List(<<CallerPolicyB, SharedKey>>)
    /\ CountCredentialPolicies(FirstPolicies(_pipeline.policies, 15)) = 1
    /\ CountCredentialPolicies(_pipeline.policies) = 2

----------------------------------------------------------------------------
(* Properties of _batch_send, under SpecBatch *)

Answered(c) == c.response # None

Accepted(c) == c.response # None /\ c.response.status_code = 202

Rejected(c) == c.response # None /\ c.response.status_code # 202

\* Some part of the body has a status outside [200, 300).
SomePartUnsuccessful(body) ==
    \E i \in 1..Len(body) : body[i].status_code < 200 \/ body[i].status_code >= 300

RaisedPartial(c) ==
    c.outcome = "raised" /\ c.thrown.type = "PartialBatchErrorException"

\* What iterating it to its end yields.
RECURSIVE Drain(_)
Drain(it) ==
    IF IteratorExhausted(it) THEN <<>>
    ELSE <<IteratorItem(it)>> \o Drain(IteratorAdvance(it))

\* C6: once the top-level response has a status other than 202 the call
\* has ended by raising the storage service error that the classifier made
\* of the HttpResponseError of line 149, response.parts() was never called,
\* and no part was collected, returned or yielded, whichever value
\* raise_on_any_failure has.
C6_RejectedBatchRaisesUnparsed ==
    \A t \in DOMAIN calls :
        LET c == calls[t]
        IN Rejected(c) =>
            /\ c.pc = "done"
            /\ c.outcome = "raised"
            /\ c.thrown = [type |-> "HttpResponseError", response |-> c.response]
            /\ c.classified
            /\ c.raised = [type |-> "StorageServiceError", response |-> c.response]
            /\ c.parts = None
            /\ c.parts_list = <<>>
            /\ c.result = None
            /\ c.consumed = <<>>

C6_Witness ==
    \E t \in DOMAIN calls :
        /\ Rejected(calls[t])
        /\ calls[t].response.status_code = 200
        /\ calls[t].response.body # <<>>
        /\ ~calls[t].raise_on_any_failure
        /\ calls[t].raised.type = "StorageServiceError"

\* C7: raise_on_any_failure is true when the argument is omitted; and a
\* call with the argument omitted or true that got a 202 response and
\* iterated its parts to the end raises the partial-batch failure exactly
\* when some part has a status outside [200, 300); the failure then carries
\* all the parts of the response in order and the response; otherwise the
\* call returns all the parts of the response in order.
C7_EagerPartialFailure ==
    \A t \in DOMAIN calls :
        LET c == calls[t]
        IN /\ (c.pc # "idle" /\ c.arg = "omitted") => c.raise_on_any_failure
           /\ (c.pc = "done" /\ c.arg \in {"omitted", "True"} /\ Accepted(c)
                 /\ c.parts.state = "exhausted") =>
                 LET body == c.response.body
                 IN /\ RaisedPartial(c) <=> SomePartUnsuccessful(body)
                    /\ SomePartUnsuccessful(body) =>
                          /\ c.thrown.parts = body
                          /\ c.thrown.response = c.response
                          /\ c.raised.type = "PartialBatchErrorException"
                    /\ ~SomePartUnsuccessful(body) =>
                          /\ c.outcome = "returned"
                          /\ c.result = [type |-> "AsyncList", items |-> body]

C7_Witness ==
    \E t \in DOMAIN calls :
        LET c == calls[t]
        IN /\ c.pc = "done"
           /\ c.arg = "omitted"
           /\ Accepted(c)
           /\ Len(c.reqs) = 3
           /\ RaisedPartial(c)
           /\ Len(c.thrown.parts) = 3
           /\ c.thrown.parts[1].status_code = 200
           /\ c.thrown.parts[2].status_code = 300
           /\ c.thrown.parts[3].status_code = 200

\* C8: a call with raise_on_any_failure false that got a 202 response has
\* ended by returning an iterator, having raised nothing, whatever the
\* statuses of the parts; what the iterator has yielded so far followed by
\* what it still yields is what iterating response.parts() to its end
\* collects, the parts of the response in order.
C8_LazyReturnsSameParts ==
    \A t \in DOMAIN calls :
        LET c == calls[t]
        IN (c.arg = "False" /\ Accepted(c)) =>
            /\ c.pc = "done"
            /\ c.outcome = "returned"
            /\ c.thrown = None
            /\ c.raised = None
            /\ c.result.type = "AsyncIterator"
            /\ c.consumed \o Drain(c.result) = Drain(ResponseParts(c.response))
            /\ c.consumed \o Drain(c.result) = c.response.body
            /\ c.result.state = "exhausted" => c.consumed = c.response.body

C8_Witness ==
    \E t \in DOMAIN calls :
        LET c == calls[t]
        IN /\ c.arg = "False"
           /\ Accepted(c)
           /\ c.outcome = "returned"
           /\ c.result.state = "exhausted"
           /\ Len(c.consumed) = 3
           /\ c.consumed[1].status_code = 200
           /\ c.consumed[2].status_code = 300
           /\ c.consumed[3].status_code = 199

\* The call has handed parts to its caller: by an eager return, by a
\* partial-batch failure, or by a returned iterator drawn to its end.
HasDelivered(c) ==
    /\ c.pc = "done"
    /\ \/ c.outcome = "returned" /\ c.result.type = "AsyncList"
       \/ RaisedPartial(c)
       \/ c.outcome = "returned" /\ c.result.type = "AsyncIterator"
             /\ c.result.state = "exhausted"

Delivered(c) ==
    IF RaisedPartial(c) THEN c.thrown.parts
    ELSE IF c.result.type = "AsyncList" THEN c.result.items
    ELSE c.consumed

\* C9 as stated: the parts delivered are as many as the sub-requests
\* submitted, part i being the answer to sub-request i.
C9_CountAsStated ==
    \A t \in DOMAIN calls :
        LET c == calls[t]
        IN HasDelivered(c) =>
            /\ Len(Delivered(c)) = Len(c.reqs)
            /\ \A i \in 1..Len(c.reqs) : Delivered(c)[i].index = c.reqs[i].id

\* C9 (amended): the parts delivered are exactly the parts of the
\* response, in the order of the response, none dropped, duplicated or
\* moved; they are as many as the sub-requests, part i answering
\* sub-request i, whenever the response holds one part per sub-request.
C9_PartsDeliveredAsReceived ==
    \A t \in DOMAIN calls :
        LET c == calls[t]
        IN HasDelivered(c) =>
            /\ Delivered(c) = c.response.body
            /\ \A i \in 1..Len(Delivered(c)) : Delivered(c)[i].index = i
            /\ Len(c.response.body) = Len(c.reqs) =>
                  /\ Len(Delivered(c)) = Len(c.reqs)
                  /\ \A i \in 1..Len(c.reqs) : Delivered(c)[i].index = c.reqs[i].id

C9_Witness ==
    \E t \in DOMAIN calls :
        LET c == calls[t]
        IN /\ HasDelivered(c)
           /\ RaisedPartial(c)
           /\ Len(c.reqs) = 3
           /\ Len(Delivered(c)) = 3
           /\ Delivered(c)[1].status_code = 300
           /\ Delivered(c)[3].index = c.reqs[3].id

\* C10: a partial-batch failure is raised only by a call that collects
\* eagerly, after a 202 response some part of which is unsuccessful; it
\* leaves the call as the exception raised at line 160, not as a storage
\* service error; a call whose response is not 202 raises none.
C10_PartialOnlyAfterAccepted ==
    \A t \in DOMAIN calls :
        LET c == calls[t]
        IN /\ (c.thrown.type = "PartialBatchErrorException"
                  \/ c.raised.type = "PartialBatchErrorException") =>
                 /\ Accepted(c)
                 /\ SomePartUnsuccessful(c.response.body)
                 /\ c.raise_on_any_failure
                 /\ c.outcome = "raised"
                 /\ c.raised = c.thrown
                 /\ c.raised.type # "StorageServiceError"
           /\ Rejected(c) =>
                 /\ c.raised.type # "PartialBatchErrorException"
                 /\ c.raised.type = "StorageServiceError"

C10_Witness ==
    \E t \in DOMAIN calls :
        LET c == calls[t]
        IN /\ c.outcome = "raised"
           /\ c.raised.type = "PartialBatchErrorException"
           /\ c.response.status_code = 202
           /\ c.arg = "True"
           /\ Len(c.response.body) = 1
           /\ c.response.body[1].status_code = 199

----------------------------------------------------------------------------
(* Properties of AsyncTransportWrapper, under SpecWrapper *)

\* The send calls among the calls made on the wrapper, in order.
WrapperSends == SelectSeq(wrapper.log, LAMBDA op : op.method = "send")

\* C11: whatever open, close, __aenter__ and __aexit__ calls the wrapper
\* got, the wrapped transport got no open and no close call and is still
\* in use; the wrapped transport was given exactly the requests sent on the
\* wrapper, in order, and a send returns the wrapped transport's response
\* to that request.
C11_WrapperOnlyDelegatesSend ==
    LET transport == wrapper._transport
        n == Len(wrapper.log)
    IN /\ transport.open_calls = 0
       /\ transport.close_calls = 0
       /\ ~transport.closed
       /\ Len(transport.requests) = Len(WrapperSends)
       /\ \A i \in 1..Len(WrapperSends) :
               transport.requests[i] = WrapperSends[i].request
       /\ (n > 0 /\ wrapper.log[n].method = "send") =>
               /\ wrapper.result.type = "AsyncHttpResponse"
               /\ wrapper.result.request = wrapper.log[n].request
               /\ wrapper.result.answer = Len(transport.requests)
       /\ (n > 0 /\ wrapper.log[n].method # "send") => wrapper.result = None

C11_Witness ==
    /\ Len(wrapper.log) = 3
    /\ wrapper.log[1].method = "__aexit__"
    /\ wrapper.log[2].method = "close"
    /\ wrapper.log[3].method = "send"
    /\ wrapper.result.type = "AsyncHttpResponse"
    /\ wrapper.result.request = wrapper.log[3].request
    /\ wrapper._transport.requests = <<wrapper.log[3].request>>

----------------------------------------------------------------------------
(* Properties of the client's scoped use, under SpecScope *)

\* What self._client is to receive for a sequence of scope calls: one
\* __aenter__ per __aenter__, one __aexit__ per __aexit__, one close per
\* close, nothing for __enter__ and __exit__.
RECURSIVE ScopeProtocol(_)
ScopeProtocol(log) ==
    IF log = <<>>
    THEN <<>>
    ELSE LET op == log[Len(log)]
             before == ScopeProtocol(SubSeq(log, 1, Len(log) - 1))
         IN IF op \in {"__aenter__", "__aexit__", "close"}
            THEN Append(before, op)
            ELSE before

\* C12: __aenter__ enters self._client and returns the client itself;
\* __aexit__ and close() each pass the closing call to self._client;
\* __enter__ always raises a TypeError that names 'async with', and passes
\* nothing to self._client.
C12_ScopeProtocol ==
    LET n == Len(scope.log)
        last == scope.log[n]
    IN /\ scope._client = ScopeProtocol(scope.log)
       /\ n > 0 =>
            /\ last = "__aenter__" =>
                  /\ scope.outcome = "returned"
                  /\ scope.value = [type |-> "self"]
                  /\ scope._client[Len(scope._client)] = "__aenter__"
            /\ last \in {"__aexit__", "close"} =>
                  /\ scope.outcome = "returned"
                  /\ scope._client[Len(scope._client)] = last
            /\ last = "__enter__" =>
                  /\ scope.outcome = "raised"
                  /\ scope.value.type = "TypeError"
                  /\ scope.value.message = "Async client only supports 'async with'."

C12_Witness ==
    /\ scope.log = <<"__aenter__", "__enter__", "__aexit__">>
    /\ scope._client = <<"__aenter__", "__aexit__">>

----------------------------------------------------------------------------
(* Properties of the transport of _create_pipeline, under SpecCreate *)

\* The timeout a default transport is to be built with: the caller's when
\* the caller passed one, the default otherwise.
TimeoutInEffect(passed, default) == IF passed = None THEN default ELSE passed

\* C13: a _create_pipeline call with a supported credential and no prebuilt
\* pipeline: with no transport passed it constructs an AioHttpTransport with
\* the caller's connection and read timeouts, CONNECTION_TIMEOUT and
\* READ_TIMEOUT where the caller passed none, and builds the pipeline over
\* it; when the import of the transport fails it raises ImportError and the
\* client has no pipeline; with a transport passed the pipeline is built
\* over that transport and no import is attempted, no transport constructed.
C13_DefaultTransport ==
    LET k == args.kwargs
    IN (phase # "new" /\ ~UnsupportedCredential(args.credential)
           /\ ~Truthy(k._pipeline)) =>
        IF k.transport # None
        THEN /\ phase = "ready"
             /\ _pipeline.transport = k.transport
             /\ _config.transport = k.transport
             /\ ~effects.import_attempted
             /\ ~effects.transport_constructed
        ELSE IF args.aiohttp_installed
        THEN /\ phase = "ready"
             /\ effects.transport_constructed
             /\ _pipeline.transport.type = "AioHttpTransport"
             /\ _pipeline.transport.origin = "default"
             /\ _pipeline.transport.connection_timeout =
                    TimeoutInEffect(k.connection_timeout, CONNECTION_TIMEOUT)
             /\ _pipeline.transport.read_timeout =
                    TimeoutInEffect(k.read_timeout, READ_TIMEOUT)
             /\ _config.transport = _pipeline.transport
        ELSE /\ phase = "failed"
             /\ error = "ImportError"
             /\ effects.import_attempted
             /\ ~effects.transport_constructed
             /\ ~effects.pipeline_constructed
             /\ _pipeline = Unset

C13_Witness ==
    /\ phase = "ready"
    /\ args.kwargs._pipeline = None
    /\ args.kwargs.transport = None
    /\ args.kwargs.connection_timeout = CallerTimeout
    /\ args.kwargs.read_timeout = None
    /\ _pipeline.transport.type = "AioHttpTransport"
    /\ _pipeline.transport.connection_timeout = CallerTimeout
    /\ _pipeline.transport.read_timeout = READ_TIMEOUT

----------------------------------------------------------------------------
(* Further properties of _batch_send, under SpecBatch *)

\* C14: a _batch_send call runs the pipeline once (line 142), and the
\* number of runs stays one however the call ends: by a return, by a storage
\* service error, by a partial-batch failure or by a failure of the run or of
\* the iteration of the parts.
C14_OnePipelineRun ==
    \A t \in DOMAIN calls :
        LET c == calls[t]
        IN /\ c.pc = "idle" => c.runs = 0
           /\ c.pc # "idle" =>
                 /\ c.runs = 1
                 /\ c.request.multipart_mixed_info.requests = c.reqs

C14_Witness ==
    \E t \in DOMAIN calls :
        LET c == calls[t]
        IN /\ c.pc = "done"
           /\ c.outcome = "raised"
           /\ c.raised.type = "PartialBatchErrorException"
           /\ Len(c.parts_list) = 2
           /\ c.runs = 1

----------------------------------------------------------------------------
(* Properties of concurrent _batch_send calls, under SpecConcurrent *)

\* How a finished call ends when it is the only call of the client: by its
\* own flag, the response to its own request and the failures of its own
\* run and iteration.
SoloOutcome(c) ==
    IF c.response = None
    THEN [outcome |-> "raised", raised |-> [type |-> "ServiceRequestError"],
          result |-> None]
    ELSE IF c.response.status_code # 202
    THEN [outcome |-> "raised",
          raised |-> [type |-> "StorageServiceError", response |-> c.response],
          result |-> None]
    ELSE IF c.arg = "False"
    THEN [outcome |-> "returned", raised |-> None,
          result |-> [type |-> "AsyncIterator", of |-> c.response.body,
                      pos |-> Len(c.consumed),
                      state |-> c.result.state]]
    ELSE IF c.parts.state = "failed"
    THEN [outcome |-> "raised",
          raised |-> [type |-> "StorageServiceError", response |-> c.response],
          result |-> None]
    ELSE IF SomePartUnsuccessful(c.response.body)
    THEN [outcome |-> "raised",
          raised |-> [type |-> "PartialBatchErrorException",
                      message |-> "There is a partial failure in the batch operation.",
                      response |-> c.response, parts |-> c.response.body],
          result |-> None]
    ELSE [outcome |-> "returned", raised |-> None,
          result |-> [type |-> "AsyncList", items |-> c.response.body]]

\* C15: while two _batch_send calls of one client interleave at their
\* suspension points, the client's credential policy, configuration and
\* pipeline stay what _create_pipeline left, each call keeps its own
\* request, and each finished call ends as it would have ended alone; a
\* lazy call hands its caller the parts of its own response.
C15_CallsAreIndependent ==
    LET r == create_pipeline(args.credential, args.kwargs, args.aiohttp_installed)
    IN /\ _credential_policy = r.credential_policy
       /\ _config = r.config
       /\ _pipeline = r.pipeline
       /\ \A t \in DOMAIN calls :
            LET c == calls[t]
            IN /\ c.pc # "idle" =>
                    c.request.multipart_mixed_info.requests = c.reqs
               /\ c.pc = "done" =>
                    /\ c.outcome = SoloOutcome(c).outcome
                    /\ c.raised = SoloOutcome(c).raised
                    /\ c.result = SoloOutcome(c).result
                    /\ Accepted(c) =>
                          c.consumed = SubSeq(c.response.body, 1, Len(c.consumed))

C15_Witness ==
    /\ calls["t1"].pc = "iterating"
    /\ Len(calls["t1"].parts_list) = 1
    /\ calls["t1"].parts_list[1].status_code = 300
    /\ calls["t2"].pc = "done"
    /\ calls["t2"].outcome = "returned"
    /\ calls["t2"].result.type = "AsyncList"
    /\ Len(calls["t2"].result.items) = 2

\* The classes of the stages of the full chain other than the header and
\* the credential policy.
ChainOnlyStages ==
    {"QueueMessagePolicy", "HeadersPolicy", "ProxyPolicy", "UserAgentPolicy",
     "StorageContentValidation", "StorageRequestHook", "ContentDecodePolicy",
     "AsyncRedirectPolicy", "StorageHosts", "AsyncRetryPolicy",
     "NetworkTraceLoggingPolicy", "AsyncStorageResponseHook",
     "DistributedTracingPolicy", "HttpLoggingPolicy"}

\* C16: the request a _batch_send call runs carries every sub-request of
\* the call and a per-part policy list that is the header policy alone when
\* the client has no credential policy, and the header policy followed by
\* the client's credential policy when it has one; no other stage of the
\* chain is in the list; the list and the sub-requests are set on the
\* request by the time it is run and stay as set until the call ends.
C16_PartPolicies ==
    \A t \in DOMAIN calls :
        LET c == calls[t]
            info == c.request.multipart_mixed_info
        IN c.pc # "idle" =>
             /\ c.runs = 1
             /\ info.requests = c.reqs
             /\ info.policies[1] = [type |-> "StorageHeadersPolicy"]
             /\ IF _credential_policy = None
                THEN Len(info.policies) = 1
                ELSE /\ Len(info.policies) = 2
                     /\ info.policies[2] = _credential_policy
                     /\ IsCredentialPolicy(info.policies[2])
             /\ \A i \in 1..Len(info.policies) :
                    info.policies[i].type \notin ChainOnlyStages

C16_Witness ==
    \E t \in DOMAIN calls :
        LET c == calls[t]
        IN /\ c.pc = "done"
           /\ args.credential = SasCredential
           /\ Len(c.reqs) = 3
           /\ c.request.multipart_mixed_info.requests = c.reqs
           /\ c.request.multipart_mixed_info.policies =
                 <<[type |-> "StorageHeadersPolicy"],
                   [type |-> "AzureSasCredentialPolicy", credential |-> SasCredential]>>

----------------------------------------------------------------------------
(* Properties of a prebuilt pipeline, under SpecCreate *)

\* C17: a _create_pipeline call that is passed a prebuilt pipeline raises
\* TypeError for an unsupported credential; otherwise it returns the passed
\* pipeline as it is, having attempted no import, constructed no transport,
\* built no policy list and no pipeline, and it leaves in
\* self._credential_policy the policy of the credential (None for an absent
\* one), which a later _batch_send puts after the header policy in the
\* per-part list.
C17_ValidationBeforeShortcut ==
    LET k == args.kwargs
    IN (phase # "new" /\ Truthy(k._pipeline)) =>
        IF UnsupportedCredential(args.credential)
        THEN /\ phase = "failed"
             /\ error = "TypeError"
             /\ _pipeline = Unset
             /\ \A t \in DOMAIN calls : calls[t].pc = "idle"
        ELSE /\ phase = "ready"
             /\ _pipeline = k._pipeline
             /\ ~effects.import_attempted
             /\ ~effects.transport_constructed
             /\ ~effects.policies_built
             /\ ~effects.pipeline_constructed
             /\ args.credential = None => _credential_policy = None
             /\ args.credential # None =>
                    /\ IsCredentialPolicy(_credential_policy)
                    /\ \/ _credential_policy = args.credential
                       \/ _credential_policy.credential = args.credential
             /\ \A t \in DOMAIN calls :
                    calls[t].pc # "idle" =>
                        calls[t].request.multipart_mixed_info.policies =
                            IF args.credential = None
                            THEN <<[type |-> "StorageHeadersPolicy"]>>
                            ELSE <<[type |-> "StorageHeadersPolicy"], _credential_policy>>

C17_Witness ==
    /\ phase = "ready"
    /\ args.kwargs._pipeline = PrebuiltAnonymous
    /\ _pipeline = PrebuiltAnonymous
    /\ args.credential = TokenCredential
    /\ _credential_policy.type = "AsyncBearerTokenCredentialPolicy"
    /\ \E t \in DOMAIN calls :
          /\ calls[t].pc # "idle"
          /\ calls[t].request.multipart_mixed_info.policies[2] = _credential_policy

----------------------------------------------------------------------------
(* Properties of the ways a _batch_send call ends, under SpecBatch *)

\* The classes of HttpResponseError raised inside the try block.
HttpLevelErrors == {"HttpResponseError", "PartialBatchErrorException", "DecodeError"}

\* C18: a finished _batch_send call has either returned the parts (an
\* AsyncList or the iterator of the response) and raised nothing, or raised
\* an exception and returned nothing; a response that is not 202, a partial
\* failure of an eager call and a decoding error of the iteration are each
\* given to process_storage_error and leave the call as the exception it
\* raises.
C18_ReturnsPartsOrRaises ==
    \A t \in DOMAIN calls :
        LET c == calls[t]
        IN c.pc = "done" =>
             /\ c.outcome \in {"returned", "raised"}
             /\ c.outcome = "returned" =>
                   /\ c.result.type \in {"AsyncList", "AsyncIterator"}
                   /\ c.raised = None
                   /\ c.thrown = None
             /\ c.outcome = "raised" =>
                   /\ c.raised # None
                   /\ c.result = None
             /\ c.thrown.type \in HttpLevelErrors =>
                   /\ c.classified
                   /\ c.outcome = "raised"
                   /\ c.raised.type \in {"StorageServiceError", "PartialBatchErrorException"}
             /\ Rejected(c) => c.thrown.type = "HttpResponseError"
             /\ (Accepted(c) /\ c.raise_on_any_failure /\ c.parts.state = "exhausted"
                    /\ SomePartUnsuccessful(c.response.body)) =>
                   c.thrown.type = "PartialBatchErrorException"
             /\ (Accepted(c) /\ c.raise_on_any_failure /\ c.parts.state = "failed") =>
                   c.thrown.type \in {"DecodeError", "ServiceResponseError"}

C18_Witness ==
    \E t \in DOMAIN calls :
        LET c == calls[t]
        IN /\ c.pc = "done"
           /\ c.thrown.type = "DecodeError"
           /\ Len(c.parts_list) = 1
           /\ Len(c.response.body) = 2
           /\ c.classified
           /\ c.outcome = "raised"
           /\ c.raised.type = "StorageServiceError"
           /\ c.result = None

====
